---- MODULE Spec2Model ----
(***************************************************************************)
(* A model of the extraction pipeline of ottinger/assessorscraper:         *)
(*   src/real_property.py  RealProperty.extractRealPropertyData,           *)
(*                         extractValuationHistory, extractBuildings       *)
(*   src/rp_tables.py      ValuationHistory.extract,                       *)
(*                         DeedTransaction.extract, BuildingPermit.extract *)
(*                                                                         *)
(* Texts are TLA+ strings handled character by character.  An optional     *)
(* value (Python's None or a value) is a sequence of length 0 or 1.        *)
(* Floats are fixed-point numbers counted in hundredths.                   *)
(***************************************************************************)
EXTENDS Integers, Sequences, FiniteSets, TLC

None == <<>>
Some(v) == <<v>>
IsSome(o) == Len(o) = 1
Val(o) == o[1]

(***************************************************************************)
(* Characters and the str methods the code uses.                           *)
(***************************************************************************)
Ch(s, i) == SubSeq(s, i, i)

\* s[i-1:j] of Python: the characters i..j of s that exist.
Slice(s, i, j) ==
  LET hi == IF j < Len(s) THEN j ELSE Len(s) IN
  IF i < 1 \/ i > hi THEN "" ELSE SubSeq(s, i, hi)

Whitespace == {" ", "\t", "\n", "\r"}

Digits == {"0", "1", "2", "3", "4", "5", "6", "7", "8", "9"}

Alnum ==
  Digits \cup
  {"a", "b", "c", "d", "e", "f", "g", "h", "i", "j", "k", "l", "m",
   "n", "o", "p", "q", "r", "s", "t", "u", "v", "w", "x", "y", "z",
   "A", "B", "C", "D", "E", "F", "G", "H", "I", "J", "K", "L", "M",
   "N", "O", "P", "Q", "R", "S", "T", "U", "V", "W", "X", "Y", "Z"}

DigitVal(c) ==
  CASE c = "0" -> 0 [] c = "1" -> 1 [] c = "2" -> 2 [] c = "3" -> 3
    [] c = "4" -> 4 [] c = "5" -> 5 [] c = "6" -> 6 [] c = "7" -> 7
    [] c = "8" -> 8 [] c = "9" -> 9

RECURSIVE lstrip(_)
lstrip(s) ==
  IF Len(s) > 0 /\ Ch(s, 1) \in Whitespace THEN lstrip(Tail(s)) ELSE s

RECURSIVE rstrip(_)
rstrip(s) ==
  IF Len(s) > 0 /\ Ch(s, Len(s)) \in Whitespace
  THEN rstrip(SubSeq(s, 1, Len(s) - 1))
  ELSE s

\* str.strip()
strip(s) == rstrip(lstrip(s))

\* The first word of s (s starts with a non-blank) and what follows it.
RECURSIVE WordEnd(_, _)
WordEnd(s, i) ==
  IF i < Len(s) /\ Ch(s, i + 1) \notin Whitespace THEN WordEnd(s, i + 1) ELSE i

\* ' '.join(s.split()): the words of s, one blank between two.
RECURSIVE join_split(_)
join_split(s) ==
  LET t == lstrip(s) IN
  IF Len(t) = 0 THEN ""
  ELSE LET e == WordEnd(t, 1)
           rest == join_split(SubSeq(t, e + 1, Len(t)))
       IN IF Len(rest) = 0 THEN SubSeq(t, 1, e)
          ELSE SubSeq(t, 1, e) \o " " \o rest

AllIn(s, set) == \A i \in 1..Len(s) : Ch(s, i) \in set

\* The last place where pat occurs in s, 0 when it does not.
LastIndexOf(s, pat) ==
  LET hits == {i \in 1..(Len(s) - Len(pat) + 1) :
                 SubSeq(s, i, i + Len(pat) - 1) = pat}
  IN IF hits = {} THEN 0 ELSE CHOOSE i \in hits : \A j \in hits : j <= i

\* re.match(r'(.*)' + tail, s).group(1): the greedy group, None for no match.
\* (the texts it is applied to hold no line break, so '.' matches every character)
re_match_group(s, tail) ==
  LET i == LastIndexOf(s, tail) IN
  IF i = 0 THEN None ELSE Some(SubSeq(s, 1, i - 1))

\* The length of the longest run of alphanumerics of s that starts at i.
RECURSIVE AlnumRun(_, _)
AlnumRun(s, i) ==
  IF i <= Len(s) /\ Ch(s, i) \in Alnum THEN 1 + AlnumRun(s, i + 1) ELSE 0

(***************************************************************************)
(* helpers.get_int and helpers.get_float.  Their source is not part of     *)
(* src/; they are modelled from the specification of toInt and toFloat:    *)
(* digits, thousands separators and currency symbols are accepted, and a   *)
(* text that cannot be converted gives None instead of an exception.       *)
(***************************************************************************)
RECURSIVE Without(_, _)
Without(s, set) ==
  IF Len(s) = 0 THEN ""
  ELSE IF Ch(s, 1) \in set THEN Without(Tail(s), set)
       ELSE Ch(s, 1) \o Without(Tail(s), set)

\* The number a text of digits denotes (0 for the empty text).
RECURSIVE DecVal(_)
DecVal(s) ==
  IF Len(s) = 0 THEN 0
  ELSE 10 * DecVal(SubSeq(s, 1, Len(s) - 1)) + DigitVal(Ch(s, Len(s)))

get_int(s) ==
  LET t == Without(strip(s), {"$", ","}) IN
  IF Len(t) > 0 /\ AllIn(t, Digits) THEN Some(DecVal(t)) ELSE None

\* The result counts hundredths: "0.25" gives 25, "1,200" gives 120000.
get_float(s) ==
  LET t == Without(strip(s), {"$", ","})
      dots == {i \in 1..Len(t) : Ch(t, i) = "."}
      d == IF dots = {} THEN Len(t) + 1 ELSE CHOOSE i \in dots : \A j \in dots : i <= j
      ip == Slice(t, 1, d - 1)
      fp == Slice(t, d + 1, Len(t))
      f2 == SubSeq(fp \o "00", 1, 2)
  IN IF Len(ip) + Len(fp) > 0 /\ AllIn(ip, Digits) /\ AllIn(fp, Digits)
     THEN Some(100 * DecVal(ip) + DecVal(f2))
     ELSE None

(***************************************************************************)
(* re.findall(r'(.+) Block ([a-zA-Z0-9]+) Lot ([a-zA-Z0-9]+)', s)          *)
(* src/real_property.py:133-135.  The first match starts at the first      *)
(* character; (.+) is greedy, so it ends at the last " Block " that the    *)
(* rest of the pattern can follow.  The result is the list of matches:     *)
(* empty or holding the one tuple the code reads with [0].                 *)
(***************************************************************************)
BlockLotAt(s, i) ==
  LET b == i + 7
      bl == AlnumRun(s, b)
      l == b + bl + 5
      ll == AlnumRun(s, l)
  IN [ok |-> /\ i >= 2
             /\ Slice(s, i, i + 6) = " Block "
             /\ bl >= 1
             /\ Slice(s, b + bl, b + bl + 4) = " Lot "
             /\ ll >= 1,
      groups |-> <<Slice(s, 1, i - 1), Slice(s, b, b + bl - 1), Slice(s, l, l + ll - 1)>>]

re_findall_block_lot(s) ==
  LET hits == {i \in 1..Len(s) : BlockLotAt(s, i).ok} IN
  IF hits = {} THEN <<>>
  ELSE <<BlockLotAt(s, CHOOSE i \in hits : \A j \in hits : j <= i).groups>>

(***************************************************************************)
(* datetime.strptime(text, "%m/%d/%Y")  src/rp_tables.py:114, 158.         *)
(* Some(<<year, month, day>>), or None where strptime raises ValueError.   *)
(***************************************************************************)
\* The places of the "/" characters of s, in order.
Slashes(s) == {i \in 1..Len(s) : Ch(s, i) = "/"}

IsLeap(y) == (y % 4 = 0 /\ y % 100 # 0) \/ y % 400 = 0

DaysIn(m, y) ==
  IF m = 2 THEN (IF IsLeap(y) THEN 29 ELSE 28)
  ELSE IF m \in {4, 6, 9, 11} THEN 30 ELSE 31

strptime(s) ==
  LET sl == Slashes(s)
      a == CHOOSE i \in sl : \A j \in sl : i <= j
      b == CHOOSE i \in sl : \A j \in sl : j <= i
      ms == Slice(s, 1, a - 1)
      ds == Slice(s, a + 1, b - 1)
      ys == Slice(s, b + 1, Len(s))
  IN IF /\ Cardinality(sl) = 2
        /\ Len(ms) \in {1, 2} /\ AllIn(ms, Digits)
        /\ Len(ds) \in {1, 2} /\ AllIn(ds, Digits)
        /\ Len(ys) = 4 /\ AllIn(ys, Digits)
        /\ DecVal(ms) \in 1..12
        /\ DecVal(ds) >= 1
        /\ DecVal(ds) <= DaysIn(DecVal(ms), DecVal(ys))
        /\ DecVal(ys) >= 1
     THEN Some(<<DecVal(ys), DecVal(ms), DecVal(ds)>>)
     ELSE None

(***************************************************************************)
(* The markup of a property page, as BeautifulSoup shows it to the code:   *)
(* the number of <table> elements, whether the fourth has a <tbody>, and   *)
(* the <tr> rows of that table, each a sequence of <td> cells.  A cell is  *)
(* the chain of elements around its text:                                  *)
(*   "font"      <td><font>text</font></td>                                *)
(*   "fontfont"  <td><font><font>text</font></font></td>                   *)
(*   "input"     <td><input value="text"></td>                             *)
(*   "a"         <td><a>text</a></td>                                      *)
(*   "text"      <td>text</td>                                             *)
(* A state holds the name of a page; HTML gives the markup of a name.      *)
(***************************************************************************)
Cell(tag, text) == [tag |-> tag, text |-> text]

Lbl == Cell("font", "label")

GoodRows(v) ==
  << <<Cell("fontfont", v.acct), Cell("fontfont", " Residential "), Lbl, Lbl,
       Cell("font", v.location)>>,
     <<Lbl, Cell("font", " SMITH HARDWARE"), Lbl, Cell("font", "OKLAHOMA CITY ")>>,
     <<Lbl, Cell("font", v.owner), Lbl, Cell("font", v.qs)>>,
     <<Lbl, Cell("font", " "), Lbl, Cell("font", " R000000 ")>>,
     <<Lbl, Cell("font", "PO BOX 1"), Lbl, Cell("input", "TXD 100")>>,
     <<Lbl, Cell("font", "\t"), Lbl, Cell("font", "Oklahoma City #89")>>,
     <<Lbl, Cell("font", "OKLAHOMA CITY,\n OK  73102"), Lbl, Cell("font", v.land)>>,
     <<Lbl, Cell("fontfont", v.lv)>>,
     <<Lbl>>,
     <<Cell("font", "SW 12\t11N 3W"), Cell("a", v.subdiv)>> >>

PageA ==
  [acct |-> " R123456 ", location |-> " 123 MAIN ST ", owner |-> "SMITH JOHN ",
   qs |-> " 2345 ", land |-> " 1,200 \n Square  Feet ", lv |-> " $12,345 ",
   subdiv |-> "Elm  Heights Block 3A Lot 12"]

PageB ==
  [acct |-> "R654321", location |-> "9 OAK AVE", owner |-> "DOE JANE",
   qs |-> "1001", land |-> "0.25 Acres", lv |-> "40,000",
   subdiv |-> "Oak Park Block 7 Lot 1B"]

Markup(n, body, rows) == [ntables |-> n, tbody |-> body, rows |-> rows]

HTML(name) ==
  CASE name = "A" -> Markup(5, TRUE, GoodRows(PageA))
    [] name = "B" -> Markup(4, TRUE, GoodRows(PageB))
    [] name = "A_other_land" ->
         Markup(5, TRUE, GoodRows([PageA EXCEPT !.land = "Unknown"]))
    [] name = "A_bad_numbers" ->
         Markup(5, TRUE, GoodRows([PageA EXCEPT !.qs = "n/a", !.lv = " ",
                                                !.land = "n/a Square Feet"]))
    [] name = "B_bad_acres" ->
         Markup(5, TRUE, GoodRows([PageB EXCEPT !.land = "n/a Acres"]))
    [] name = "B_no_subdivision" ->
         Markup(5, TRUE, GoodRows([PageB EXCEPT !.subdiv = "UNPLATTED PT SEC 12 11N 3W"]))
    [] name = "no_table" -> Markup(3, TRUE, GoodRows(PageA))
    [] name = "no_tbody" -> Markup(4, FALSE, GoodRows(PageA))
    [] name = "B_few_rows" -> Markup(4, TRUE, SubSeq(GoodRows(PageB), 1, 5))
    [] name = "B_few_cells" ->
         Markup(4, TRUE, [GoodRows(PageB) EXCEPT ![3] = SubSeq(@, 1, 2)])

Pages ==
  {"A", "B", "A_other_land", "A_bad_numbers", "B_bad_acres", "B_no_subdivision",
   "no_table", "no_tbody", "B_few_rows", "B_few_cells"}

(***************************************************************************)
(* What reading a cell gives: the text, or the exception Python raises.    *)
(***************************************************************************)
Ok(v) == [err |-> "", v |-> v]
Raise(e) == [err |-> e, v |-> ""]

\* tag.string followed by .strip() or .split(): the string of an element without
\* text is None, and the method call on it raises AttributeError.
StringOf(text) == IF text = "" THEN Raise("AttributeError") ELSE Ok(text)

\* cur_tds[c].font.font.string
td_font_font_string(cell) ==
  IF cell.tag = "fontfont" THEN StringOf(cell.text) ELSE Raise("AttributeError")

\* cur_tds[c].font.string (the string of a tag with one child is the child's)
td_font_string(cell) ==
  IF cell.tag \in {"font", "fontfont"} THEN StringOf(cell.text)
  ELSE Raise("AttributeError")

\* cur_tds[c].input['value']
td_input_value(cell) ==
  IF cell.tag = "input" THEN Ok(cell.text) ELSE Raise("TypeError")

\* cur_tds[c].find_all('font')[1].string
td_second_font_string(cell) ==
  IF cell.tag = "fontfont" THEN StringOf(cell.text) ELSE Raise("IndexError")

\* cur_tds[c].a.string
td_a_string(cell) ==
  IF cell.tag = "a" THEN StringOf(cell.text) ELSE Raise("AttributeError")

Access(how, cell) ==
  CASE how = "font.font" -> td_font_font_string(cell)
    [] how = "font" -> td_font_string(cell)
    [] how = "input" -> td_input_value(cell)
    [] how = "fonts[1]" -> td_second_font_string(cell)
    [] how = "a" -> td_a_string(cell)

\* rows[r].find_all('td')[c] read by `how`; r and c count from 0 as the code does.
ReadCell(rows, r, c, how) ==
  IF r + 1 > Len(rows) \/ c + 1 > Len(rows[r + 1]) THEN Raise("IndexError")
  ELSE Access(how, rows[r + 1][c + 1])

(***************************************************************************)
(* The RealProperty object.  src/real_property.py:16-51                    *)
(***************************************************************************)
NewRealProperty ==
  [propertyid |-> None, account_number |-> None, property_type |-> None,
   location |-> None, building_name_occupant |-> None, city |-> None,
   owner_name_1 |-> None, owner_name_2 |-> None, billing_address_1 |-> None,
   billing_address_2 |-> None, city_state_zip |-> None, quarter_section |-> None,
   parent_acct |-> None, tax_district |-> None, school_system |-> None,
   land_size_str |-> None, land_size |-> None, lot_width |-> None,
   lot_depth |-> None, land_value |-> None, quarter_section_description |-> None,
   subdivision |-> None, block |-> None, lot |-> None, legal_description |-> None,
   valuations |-> <<>>, buildings |-> <<>>]

TableIndex == 3

SqFtPerAcre == 43560

(***************************************************************************)
(* The body of extractRealPropertyData after the markup is there, one step *)
(* per assignment, in the order of the code.  A step that raises ends the  *)
(* run and the assignments made before it stay.                            *)
(***************************************************************************)
Step(kind, field, r, c, how, norm) ==
  [kind |-> kind, field |-> field, r |-> r, c |-> c, how |-> how, norm |-> norm]

Steps ==
  << Step("cell", "account_number", 0, 0, "font.font", "strip"),
     Step("cell", "property_type", 0, 1, "font.font", "strip"),
     Step("cell", "location", 0, 4, "font", "strip"),
     Step("cell", "building_name_occupant", 1, 1, "font", "strip"),
     Step("cell", "city", 1, 3, "font", "strip"),
     Step("cell", "owner_name_1", 2, 1, "font", "strip"),
     Step("cell", "quarter_section", 2, 3, "font", "get_int"),
     Step("cell", "owner_name_2", 3, 1, "font", "strip"),
     Step("cell", "parent_acct", 3, 3, "font", "strip"),
     Step("cell", "billing_address_1", 4, 1, "font", "strip"),
     Step("cell", "tax_district", 4, 3, "input", "none"),
     Step("cell", "billing_address_2", 5, 1, "font", "strip"),
     Step("cell", "school_system", 5, 3, "font", "strip"),
     Step("cell", "city_state_zip", 6, 1, "font", "join_split"),
     Step("cell", "land_size_str", 6, 3, "font", "join_split"),
     Step("land_size", "land_size", 6, 3, "", ""),
     Step("cell", "land_value", 7, 1, "fonts[1]", "get_int"),
     Step("cell", "quarter_section_description", 9, 0, "font", "join_split"),
     Step("subdivision", "subdivision", 9, 1, "a", "join_split") >>

Normalize(norm, text) ==
  CASE norm = "strip" -> Some(strip(text))
    [] norm = "join_split" -> Some(join_split(text))
    [] norm = "get_int" -> get_int(strip(text))
    [] norm = "none" -> Some(text)

Done(r) == [err |-> "", rec |-> r]
Failed(e, r) == [err |-> e, rec |-> r]

\* AssignCell with a failing cell discarding the fields of the object.
AssignCell_Mut(r, st, rows) ==
  LET got == ReadCell(rows, st.r, st.c, st.how) IN
  IF got.err # "" THEN Failed(got.err, NewRealProperty)
  ELSE Done([r EXCEPT ![st.field] = Normalize(st.norm, got.v)])

\* self.<field> = <normalizer>(cur_tds[c]...)
AssignCell(r, st, rows) ==
  LET got == ReadCell(rows, st.r, st.c, st.how) IN
  IF got.err # "" THEN Failed(got.err, r)
  ELSE Done([r EXCEPT ![st.field] = Normalize(st.norm, got.v)])

\* AcresToSquareFeet without the conversion.
AcresToSquareFeet_Mut(acres) ==
  IF IsSome(acres) THEN Ok(Val(acres)) ELSE Raise("TypeError")

\* land_size_acres * 43560; NoneType * int raises TypeError.
AcresToSquareFeet(acres) ==
  IF IsSome(acres) THEN Ok(Val(acres) * SqFtPerAcre) ELSE Raise("TypeError")

\* src/real_property.py:115-119
AssignLandSize(r) ==
  LET text == Val(r.land_size_str)
      sqft == re_match_group(text, " Square Feet")
      acres == re_match_group(text, " Acres")
  IN IF IsSome(sqft) THEN Done([r EXCEPT !.land_size = get_float(Val(sqft))])
     ELSE IF IsSome(acres)
          THEN LET got == AcresToSquareFeet(get_float(Val(acres))) IN
               IF got.err # "" THEN Failed(got.err, r)
               ELSE Done([r EXCEPT !.land_size = Some(got.v)])
          ELSE Done(r)

\* src/real_property.py:131-135
AssignSubdivision(r, st, rows) ==
  LET got == ReadCell(rows, st.r, st.c, st.how) IN
  IF got.err # "" THEN Failed(got.err, r)
  ELSE LET found == re_findall_block_lot(join_split(got.v)) IN
       IF Len(found) = 0 THEN Failed("IndexError", r)
       ELSE Done([r EXCEPT !.subdivision = Some(found[1][1]),
                           !.block = Some(found[1][2]),
                           !.lot = Some(found[1][3])])

RunStep(r, st, rows) ==
  CASE st.kind = "cell" -> AssignCell(r, st, rows)
    [] st.kind = "land_size" -> AssignLandSize(r)
    [] st.kind = "subdivision" -> AssignSubdivision(r, st, rows)

RECURSIVE RunSteps(_, _, _)
RunSteps(r, rows, i) ==
  IF i > Len(Steps) THEN Done(r)
  ELSE LET one == RunStep(r, Steps[i], rows) IN
       IF one.err # "" THEN one ELSE RunSteps(one.rec, rows, i + 1)

\* 'property_html' in kwargs
HasHtml(kw) == kw.has_html

\* HasPid taking the identifier for granted.
HasPid_Mut(kw) == TRUE

\* 'propertyid' in kwargs
HasPid(kw) == kw.has_pid

\* SetPropertyid that keeps an identifier once it is set.
SetPropertyid_Mut(r, kw) ==
  IF r.propertyid = None THEN [r EXCEPT !.propertyid = Some(kw.pid)] ELSE r

\* self.propertyid = kwargs['propertyid']
SetPropertyid(r, kw) == [r EXCEPT !.propertyid = Some(kw.pid)]

\* src/real_property.py:80-135
ParsePropertyPage(r, kw, name) ==
  LET page == HTML(name) IN
  IF page.ntables < TableIndex + 1 THEN Failed("IndexError", r)
  ELSE IF ~page.tbody THEN Failed("AttributeError", r)
  ELSE IF ~HasPid(kw) THEN Failed("KeyError", r)
  ELSE RunSteps(SetPropertyid(r, kw), page.rows, 1)

(***************************************************************************)
(* The record builders: one entry per row dictionary, fields copied.       *)
(***************************************************************************)
\* src/real_property.py:155-164, src/rp_tables.py:65-74
ValuationEntry(d) ==
  Ok([year |-> d.year, market_value |-> d.market_value,
      taxable_market_value |-> d.taxable_market_value,
      gross_assessed |-> d.gross_assessed, exemption |-> d.exemption,
      net_assessed |-> d.net_assessed, millage |-> d.millage, tax |-> d.tax,
      tax_savings |-> d.tax_savings])

\* src/real_property.py:179-185
BuildingEntry(d) ==
  Ok([bldg_id |-> d.building_number, vacant_or_improved |-> d.vacant_or_improved,
      bldg_description |-> d.building_description, year_built |-> d.year_built,
      sq_ft |-> d.square_feet, number_stories |-> d.stories])

\* src/rp_tables.py:113-120
DeedEntry(d) ==
  LET date == strptime(d.date) IN
  IF ~IsSome(date) THEN Raise("ValueError")
  ELSE Ok([date |-> Val(date), type |-> d.type, book |-> d.book, page |-> d.page,
           price |-> d.price, grantor |-> d.grantor, grantee |-> d.grantee])

\* src/rp_tables.py:157-164
PermitEntry(d) ==
  LET date == strptime(d.date) IN
  IF ~IsSome(date) THEN Raise("ValueError")
  ELSE Ok([date |-> Val(date), permit_number |-> d.permit_number,
           provided_by |-> d.provided_by, building_number |-> d.building_number,
           description |-> d.description, estimated_cost |-> d.estimated_cost,
           status |-> d.status])

Entry(kind, d) ==
  CASE kind = "valuation" -> ValuationEntry(d)
    [] kind = "building" -> BuildingEntry(d)
    [] kind = "deed" -> DeedEntry(d)
    [] kind = "permit" -> PermitEntry(d)

\* for d in dicts: ...; list.append(entry)   An exception leaves the loop and the list.
RECURSIVE BuildList(_, _, _)
BuildList(kind, dicts, list) ==
  IF Len(dicts) = 0 THEN Ok(list)
  ELSE LET e == Entry(kind, Head(dicts)) IN
       IF e.err # "" THEN Raise(e.err)
       ELSE BuildList(kind, Tail(dicts), Append(list, e.v))

(***************************************************************************)
(* The exceptions.  ExceptTuple is the tuple of every except clause.       *)
(***************************************************************************)
ExceptTuple ==
  {"ConnectionError", "TimeoutError", "urllib3.exceptions.NewConnectionError",
   "urllib3.exceptions.MaxRetryError", "requests.ConnectionError"}

\* Caught of a bare except clause.
Caught_Mut(e) == TRUE

Caught(e) == e \in ExceptTuple

\* What requests.get raises when the connection fails (two of the classes).
RequestErrors == {"requests.ConnectionError", "TimeoutError"}

\* What a row-list extractor of get_tables raises: the same network failures, and
\* the indexing failure of a page whose table is not where it is expected.
RowListErrors == RequestErrors \cup {"IndexError"}

SleepSeconds == 10

\* The frames the interpreter allows (sys.getrecursionlimit() of them; the model
\* counts the frames of the extraction function only and scales the limit down).
RecursionLimit == 3

\* The extraction calls one behaviour makes on the object.
MaxCalls == 2

(***************************************************************************)
(* The inputs.                                                             *)
(***************************************************************************)
PropertyIds == {101, 202}

Kw(has_html, html, has_pid, pid) ==
  [has_html |-> has_html, html |-> html, has_pid |-> has_pid, pid |-> pid]

\* The pages handed over as property_html (a request may answer any page).
HtmlArgs == {"A", "B_no_subdivision", "no_table"}

Kwargs ==
  {Kw(FALSE, "", FALSE, 0)}
    \cup {Kw(TRUE, h, FALSE, 0) : h \in HtmlArgs}
    \cup {Kw(FALSE, "", TRUE, p) : p \in PropertyIds}
    \cup {Kw(TRUE, h, TRUE, p) : h \in HtmlArgs, p \in PropertyIds}

V1 ==
  [year |-> 2020, market_value |-> 100000, taxable_market_value |-> 95000,
   gross_assessed |-> 11000, exemption |-> 1000, net_assessed |-> 10000,
   millage |-> 11345, tax |-> 113450, tax_savings |-> 11]

V2 ==
  [year |-> 2021, market_value |-> 105000, taxable_market_value |-> 99750,
   gross_assessed |-> 11550, exemption |-> 0, net_assessed |-> 11550,
   millage |-> 11402, tax |-> 131693, tax_savings |-> 12]

ValuationLists == {<<>>, <<V1>>, <<V2, V1>>}

B1 ==
  [building_number |-> 1, vacant_or_improved |-> "Improved",
   building_description |-> "Ranch 1 Story", year_built |-> 1975,
   square_feet |-> 1500, stories |-> 1]

B2 ==
  [building_number |-> 2, vacant_or_improved |-> "Improved",
   building_description |-> "Detached Garage", year_built |-> 1990,
   square_feet |-> 400, stories |-> 1]

BuildingLists == {<<B1>>, <<B1, B2>>}

T1 ==
  [date |-> "01/15/2021", type |-> "WD", book |-> 14567, page |-> 1203,
   price |-> 150000, grantor |-> "SMITH JOHN", grantee |-> "DOE JANE"]

T2 ==
  [date |-> "2/29/2020", type |-> "QCD", book |-> 14001, page |-> 88,
   price |-> 0, grantor |-> "SMITH MARY", grantee |-> "SMITH JOHN"]

TBad == [T1 EXCEPT !.date = "2021-01-15"]

TransactionLists == {<<>>, <<T1, T2>>, <<T1, TBad>>, <<TBad, T2>>}

P1 ==
  [date |-> "12/31/2019", permit_number |-> "BP-77", provided_by |-> "OKC",
   building_number |-> 1, description |-> "ROOF", estimated_cost |-> 8000,
   status |-> "Closed"]

P2 == [P1 EXCEPT !.date = "7/4/2018", !.permit_number = "BP-12"]

PBad == [P1 EXCEPT !.date = "02/30/2021"]

PermitLists == {<<>>, <<P2, P1>>, <<P1, PBad>>}

(***************************************************************************)
(* The state.                                                              *)
(***************************************************************************)
VARIABLES
  rec,     \* the RealProperty object
  pc,      \* "idle", or "waiting": a request or row-list call has not answered yet
  cur,     \* the extraction call in progress, or the last one: [fn, kw]
  depth,   \* the frames of the extraction function on the stack
  fails,   \* the failures of the request or row-list call met by the call so far
  log,     \* what the call did, in order
  resp,    \* the answer of the request or row-list call that succeeded
  result,  \* how the call ended
  pre,     \* the RealProperty object as it was when the call started
  exc,     \* the exception the request or row-list call raised last, "" for none
  calls    \* the extraction calls made on the object so far

vars == <<rec, pc, cur, depth, fails, log, resp, result, pre, exc, calls>>

NoResponse == [got |-> FALSE, page |-> "", rows |-> <<>>]
PageResponse(name) == [got |-> TRUE, page |-> name, rows |-> <<>>]
RowsResponse(rows) == [got |-> TRUE, page |-> "", rows |-> rows]

Pending == [status |-> "pending", value |-> None, error |-> ""]
Returned(v) == [status |-> "returned", value |-> v, error |-> ""]
Raised(e) == [status |-> "raised", value |-> None, error |-> e]

EvCall(pid) == <<"call", pid>>
EvPrint == <<"print", 0>>
EvSleep == <<"sleep", SleepSeconds>>
EvBuild == <<"build", 0>>

Init ==
  /\ rec = NewRealProperty
  /\ pc = "idle"
  /\ cur = [fn |-> "", kw |-> Kw(FALSE, "", FALSE, 0)]
  /\ depth = 0
  /\ fails = 0
  /\ log = <<>>
  /\ resp = NoResponse
  /\ result = [status |-> "none", value |-> None, error |-> ""]
  /\ pre = NewRealProperty
  /\ exc = ""
  /\ calls = 0

(***************************************************************************)
(* The steps every extraction function shares.                             *)
(***************************************************************************)
\* The call ends: the frames are gone, the object and the outcome stay.
Finish(r, res, l) ==
  /\ pc' = "idle"
  /\ depth' = 0
  /\ rec' = r
  /\ result' = res
  /\ log' = l

\* RetryArg with another identifier than the one of this call.
RetryArg_Mut(kw) == kw.pid + 1

\* The argument of the call in the except clause: the propertyid of this call.
RetryArg(kw) == kw.pid

\* except (...) as e: print(...); time.sleep(10); return <the same function>(propertyid)
\* A call beyond the interpreter's recursion limit raises RecursionError, which
\* leaves every frame: the call sits inside an except clause, not inside a try.
Retry ==
  LET l == log \o <<EvPrint, EvSleep>> IN
  /\ fails' = fails + 1
  /\ IF depth + 1 > RecursionLimit
     THEN Finish(rec, Raised("RecursionError"), l)
     ELSE /\ depth' = depth + 1
          /\ log' = Append(l, EvCall(RetryArg(cur.kw)))
          /\ UNCHANGED <<pc, rec, result>>
  /\ UNCHANGED <<cur, resp, pre, calls>>

\* An exception no except clause names leaves the function.
Propagate(e) ==
  /\ Finish(rec, Raised(e), log)
  /\ UNCHANGED <<cur, fails, resp, pre, calls>>

\* try: <operation> except ExceptTuple: ...
OperationRaises(fn, errors) ==
  /\ pc = "waiting"
  /\ cur.fn = fn
  /\ \E e \in errors :
       /\ exc' = e
       /\ IF Caught(e) THEN Retry ELSE Propagate(e)

\* The function is entered from outside and calls its row-list extractor.
CallRowList(fn, pid) ==
  /\ pc = "idle"
  /\ calls < MaxCalls
  /\ calls' = calls + 1
  /\ pc' = "waiting"
  /\ cur' = [fn |-> fn, kw |-> Kw(FALSE, "", TRUE, pid)]
  /\ depth' = 1
  /\ fails' = 0
  /\ log' = <<EvCall(pid)>>
  /\ resp' = NoResponse
  /\ result' = Pending
  /\ pre' = rec
  /\ exc' = ""
  /\ UNCHANGED rec

\* The row-list extractor answers; a static extract builds the list and returns it.
ReturnList(fn, kind, dicts) ==
  /\ pc = "waiting"
  /\ cur.fn = fn
  /\ resp' = RowsResponse(dicts)
  /\ LET built == BuildList(kind, dicts, <<>>) IN
     Finish(rec,
            IF built.err # "" THEN Raised(built.err) ELSE Returned(Some(built.v)),
            Append(log, EvBuild))
  /\ UNCHANGED <<cur, fails, pre, exc, calls>>

\* AssignCollection that appends to what the collection holds.
AssignCollection_Mut(old, new) == old \o new

\* self.valuations = valuationList, self.buildings = buildingList
AssignCollection(old, new) == new

\* The row-list extractor answers; a method stores the list in the object's
\* collection and returns nothing.
StoreList(fn, kind, field, dicts) ==
  /\ pc = "waiting"
  /\ cur.fn = fn
  /\ resp' = RowsResponse(dicts)
  /\ LET built == BuildList(kind, dicts, <<>>) IN
     IF built.err # ""
     THEN Finish(rec, Raised(built.err), Append(log, EvBuild))
     ELSE Finish([rec EXCEPT ![field] = AssignCollection(@, built.v)], Returned(None),
                 Append(log, EvBuild))
  /\ UNCHANGED <<cur, fails, pre, exc, calls>>

(***************************************************************************)
(* RealProperty.extractRealPropertyData  src/real_property.py:63-135       *)
(***************************************************************************)
extractRealPropertyData(kw) ==
  /\ pc = "idle"
  /\ calls < MaxCalls
  /\ calls' = calls + 1
  /\ cur' = [fn |-> "extractRealPropertyData", kw |-> kw]
  /\ fails' = 0
  /\ resp' = NoResponse
  /\ pre' = rec
  /\ exc' = ""
  /\ IF HasHtml(kw)
     THEN LET out == ParsePropertyPage(rec, kw, kw.html) IN
          Finish(out.rec,
                 IF out.err # "" THEN Raised(out.err) ELSE Returned(None),
                 <<EvBuild>>)
     ELSE IF HasPid(kw)
          THEN /\ pc' = "waiting"
               /\ depth' = 1
               /\ log' = <<EvCall(kw.pid)>>
               /\ result' = Pending
               /\ UNCHANGED rec
          ELSE Finish(rec, Returned(None), <<>>)

extractRealPropertyData_except ==
  OperationRaises("extractRealPropertyData", RequestErrors)

extractRealPropertyData_parse(name) ==
  /\ pc = "waiting"
  /\ cur.fn = "extractRealPropertyData"
  /\ resp' = PageResponse(name)
  /\ LET out == ParsePropertyPage(rec, cur.kw, name) IN
     Finish(out.rec,
            IF out.err # "" THEN Raised(out.err) ELSE Returned(None),
            Append(log, EvBuild))
  /\ UNCHANGED <<cur, fails, pre, exc, calls>>

(***************************************************************************)
(* RealProperty.extractValuationHistory  src/real_property.py:142-166      *)
(***************************************************************************)
extractValuationHistory(propertyid) ==
  CallRowList("extractValuationHistory", propertyid)

extractValuationHistory_except ==
  OperationRaises("extractValuationHistory", RowListErrors)

extractValuationHistory_build(valuation_dicts) ==
  StoreList("extractValuationHistory", "valuation", "valuations", valuation_dicts)

(***************************************************************************)
(* RealProperty.extractBuildings  src/real_property.py:168-187             *)
(***************************************************************************)
extractBuildings(propertyid) ==
  CallRowList("extractBuildings", propertyid)

extractBuildings_except ==
  OperationRaises("extractBuildings", RowListErrors)

extractBuildings_build(building_dicts) ==
  StoreList("extractBuildings", "building", "buildings", building_dicts)

(***************************************************************************)
(* ValuationHistory.extract  src/rp_tables.py:52-77                        *)
(***************************************************************************)
ValuationHistory_extract(propertyid) ==
  CallRowList("ValuationHistory.extract", propertyid)

ValuationHistory_extract_except ==
  OperationRaises("ValuationHistory.extract", RowListErrors)

ValuationHistory_extract_build(valuation_dicts) ==
  ReturnList("ValuationHistory.extract", "valuation", valuation_dicts)

(***************************************************************************)
(* DeedTransaction.extract  src/rp_tables.py:100-124                       *)
(***************************************************************************)
DeedTransaction_extract(propertyid) ==
  CallRowList("DeedTransaction.extract", propertyid)

DeedTransaction_extract_except ==
  OperationRaises("DeedTransaction.extract", RowListErrors)

DeedTransaction_extract_build(transaction_dicts) ==
  ReturnList("DeedTransaction.extract", "deed", transaction_dicts)

(***************************************************************************)
(* BuildingPermit.extract  src/rp_tables.py:144-168                        *)
(***************************************************************************)
BuildingPermit_extract(propertyid) ==
  CallRowList("BuildingPermit.extract", propertyid)

BuildingPermit_extract_except ==
  OperationRaises("BuildingPermit.extract", RowListErrors)

BuildingPermit_extract_build(permit_dicts) ==
  ReturnList("BuildingPermit.extract", "permit", permit_dicts)

Next ==
  \/ \E kw \in Kwargs : extractRealPropertyData(kw)
  \/ extractRealPropertyData_except
  \/ \E name \in Pages : extractRealPropertyData_parse(name)
  \/ \E p \in PropertyIds : extractValuationHistory(p)
  \/ extractValuationHistory_except
  \/ \E d \in ValuationLists : extractValuationHistory_build(d)
  \/ \E p \in PropertyIds : extractBuildings(p)
  \/ extractBuildings_except
  \/ \E d \in BuildingLists : extractBuildings_build(d)
  \/ \E p \in PropertyIds : ValuationHistory_extract(p)
  \/ ValuationHistory_extract_except
  \/ \E d \in ValuationLists : ValuationHistory_extract_build(d)
  \/ \E p \in PropertyIds : DeedTransaction_extract(p)
  \/ DeedTransaction_extract_except
  \/ \E d \in TransactionLists : DeedTransaction_extract_build(d)
  \/ \E p \in PropertyIds : BuildingPermit_extract(p)
  \/ BuildingPermit_extract_except
  \/ \E d \in PermitLists : BuildingPermit_extract_build(d)

Spec == Init /\ [][Next]_vars

(***************************************************************************)
(* What the properties below read.                                         *)
(***************************************************************************)
RP == "extractRealPropertyData"

Ended == pc = "idle" /\ cur.fn # ""

Count(l, ev) == Cardinality({i \in 1..Len(l) : l[i][1] = ev})

\* The exceptions of the network: what the retry is for.
TransientClasses ==
  {"ConnectionError", "TimeoutError", "urllib3.exceptions.NewConnectionError",
   "urllib3.exceptions.MaxRetryError", "requests.ConnectionError"}

\* The exceptions of a page or row that is not as expected.
StructuralClasses == {"IndexError", "AttributeError", "KeyError", "TypeError", "ValueError"}

\* The page an extractRealPropertyData call read ("" when it read none).
PageRead ==
  IF cur.kw.has_html THEN cur.kw.html ELSE IF resp.got THEN resp.page ELSE ""

\* Pages whose layout is not the expected one, and the pages with the expected
\* layout whose numeric cells cannot be converted.
MalformedPages ==
  {"no_table", "no_tbody", "B_few_rows", "B_few_cells", "B_no_subdivision"}

UnconvertiblePages == {"A_bad_numbers", "B_bad_acres"}

\* The fields extractRealPropertyData assigns, in the order of the code, and
\* those among them that may stay unset.
FieldOrder ==
  <<"propertyid", "account_number", "property_type", "location",
    "building_name_occupant", "city", "owner_name_1", "quarter_section",
    "owner_name_2", "parent_acct", "billing_address_1", "tax_district",
    "billing_address_2", "school_system", "city_state_zip", "land_size_str",
    "land_size", "land_value", "quarter_section_description", "subdivision",
    "block", "lot">>

LenientFields == {"quarter_section", "land_size", "land_value"}

Populated(r, i) == FieldOrder[i] \in LenientFields \/ r[FieldOrder[i]] # None

ValuationFields ==
  {"year", "market_value", "taxable_market_value", "gross_assessed", "exemption",
   "net_assessed", "millage", "tax", "tax_savings"}

\* The land-size cell of the page read, blanks collapsed.
LandCell == join_split(HTML(PageRead).rows[7][4].text)

\* Land-size cells and the square feet they denote, in hundredths.
LandCases ==
  {[cell |-> "1,200 Square Feet", sqft |-> 120000],
   [cell |-> "0.25 Acres", sqft |-> 1089000]}

\* What "the result built from the answer" is, for each extraction function.
C1_ResultFromResponse ==
  CASE cur.fn = RP ->
         /\ rec.propertyid = Some(cur.kw.pid)
         /\ rec.account_number = Some(strip(HTML(resp.page).rows[1][1].text))
         /\ rec.location = Some(strip(HTML(resp.page).rows[1][5].text))
         /\ rec.lot # None
    [] cur.fn = "extractValuationHistory" ->
         /\ result.value = None
         /\ Len(rec.valuations) = Len(resp.rows)
         /\ \A i \in 1..Len(resp.rows) : rec.valuations[i].year = resp.rows[i].year
    [] cur.fn = "extractBuildings" ->
         /\ result.value = None
         /\ Len(rec.buildings) = Len(resp.rows)
         /\ \A i \in 1..Len(resp.rows) :
              rec.buildings[i].bldg_id = resp.rows[i].building_number
    [] cur.fn = "ValuationHistory.extract" ->
         /\ IsSome(result.value)
         /\ Len(Val(result.value)) = Len(resp.rows)
         /\ \A i \in 1..Len(resp.rows) : Val(result.value)[i].year = resp.rows[i].year
    [] cur.fn = "DeedTransaction.extract" ->
         /\ IsSome(result.value)
         /\ Len(Val(result.value)) = Len(resp.rows)
         /\ \A i \in 1..Len(resp.rows) :
              Val(result.value)[i].grantee = resp.rows[i].grantee
    [] cur.fn = "BuildingPermit.extract" ->
         /\ IsSome(result.value)
         /\ Len(Val(result.value)) = Len(resp.rows)
         /\ \A i \in 1..Len(resp.rows) :
              Val(result.value)[i].permit_number = resp.rows[i].permit_number

C2_TransientNeverSurfaced ==
  (Ended /\ result.status = "raised") => result.error \in StructuralClasses

\* A row of the answer holds a date that is not %m/%d/%Y.
C3_BadDate ==
  /\ cur.fn \in {"DeedTransaction.extract", "BuildingPermit.extract"}
  /\ resp.got
  /\ \E i \in 1..Len(resp.rows) : strptime(resp.rows[i].date) = None

(***************************************************************************)
(* C3.  A structural failure is never retried.  When the row-list call     *)
(* raises an exception that is no network exception, when the page read    *)
(* has not the expected layout, or when a row of DeedTransaction.extract   *)
(* or BuildingPermit.extract holds a malformed date, the call ends at once *)
(* by raising that error: nothing is returned, and after the failure there *)
(* is no log, no sleep and no further invocation.  (A call given markup    *)
(* alone raises KeyError at the propertyid assignment, before it reaches   *)
(* any row of the page; it is not retried either.)                         *)
(***************************************************************************)
C3_StructuralNotRetried ==
  /\ (exc # "" /\ exc \notin TransientClasses) =>
       /\ pc = "idle"
       /\ result = Raised(exc)
       /\ Len(log) = 3 * fails + 1
       /\ log[Len(log)] = <<"call", cur.kw.pid>>
       /\ Count(log, "sleep") = fails
  /\ (Ended /\ cur.fn = RP /\ PageRead \in MalformedPages) =>
       /\ result.status = "raised"
       /\ result.error \in StructuralClasses
       /\ cur.kw.has_pid => result.error \in {"IndexError", "AttributeError"}
       /\ result.value = None
       /\ log[Len(log)] = <<"build", 0>>
       /\ Count(log, "sleep") = fails
       /\ Count(log, "call") = (IF cur.kw.has_html THEN 0 ELSE fails + 1)
  /\ (Ended /\ C3_BadDate) =>
       /\ result = Raised("ValueError")
       /\ log[Len(log)] = <<"build", 0>>
       /\ Count(log, "sleep") = fails
       /\ Count(log, "call") = fails + 1

C3_Witness ==
  /\ Ended
  /\ cur.fn = "DeedTransaction.extract"
  /\ resp.got /\ resp.rows = <<T1, TBad>>
  /\ fails = 1
  /\ result.status = "raised"

(***************************************************************************)
(* C4.  extractRealPropertyData called with property_html alone, the page  *)
(* having the expected layout, makes no request and populates the fields   *)
(* of the object from the markup without failing.                          *)
(***************************************************************************)
C4_MarkupAlone ==
  (Ended /\ cur.fn = RP /\ cur.kw.has_html /\ ~cur.kw.has_pid /\ cur.kw.html = "A") =>
    /\ result.status = "returned"
    /\ Count(log, "call") = 0
    /\ rec.account_number = Some("R123456")
    /\ \A i \in 2..Len(FieldOrder) : Populated(rec, i)

\* The call got as far as the assignment of propertyid.
C5_Overwrites ==
  /\ cur.fn = RP /\ cur.kw.has_pid /\ PageRead # ""
  /\ HTML(PageRead).ntables >= 4 /\ HTML(PageRead).tbody

(***************************************************************************)
(* C5.  As claimed: once propertyid is set, no extraction call changes it. *)
(***************************************************************************)
C5_PropertyidImmutable ==
  pre.propertyid # None => rec.propertyid = pre.propertyid

(***************************************************************************)
(* C5, amended.  propertyid is overwritten by every extractRealPropertyData*)
(* call that is given a propertyid and reads a page with a fourth table    *)
(* and its tbody: after such a call it is the propertyid of that call,     *)
(* whatever it was before.  Every other extraction call leaves it as it    *)
(* was.                                                                    *)
(***************************************************************************)
C5_PropertyidFollowsCall ==
  Ended =>
    IF C5_Overwrites THEN rec.propertyid = Some(cur.kw.pid)
    ELSE rec.propertyid = pre.propertyid

C5_Witness ==
  /\ Ended
  /\ pre.propertyid = Some(101)
  /\ rec.propertyid = Some(202)
  /\ cur.kw.pid = 202

(***************************************************************************)
(* C6.  As claimed: when extractRealPropertyData, given an identifier or   *)
(* markup, ends, either it returned with every field populated or it       *)
(* failed and stored none of the page's fields in the object.              *)
(***************************************************************************)
C6_NoPartialSuccess ==
  (Ended /\ cur.fn = RP /\ (cur.kw.has_html \/ cur.kw.has_pid)) =>
    \/ /\ result.status = "returned"
       /\ \A i \in 1..Len(FieldOrder) : Populated(rec, i)
    \/ /\ result.status = "raised"
       /\ \A i \in 1..Len(FieldOrder) : rec[FieldOrder[i]] = pre[FieldOrder[i]]

(***************************************************************************)
(* C6, amended.  When extractRealPropertyData, given an identifier or      *)
(* markup, ends, either it returned and every field of its field set (the  *)
(* lenient numeric fields apart) is populated, or it failed; a failed call *)
(* is not undone: the fields assigned before the failing step stay         *)
(* populated and the fields after it hold what the object held before.     *)
(***************************************************************************)
C6_FailureKeepsPrefix ==
  (Ended /\ cur.fn = RP /\ (cur.kw.has_html \/ cur.kw.has_pid)) =>
    \/ /\ result.status = "returned"
       /\ rec.propertyid = Some(cur.kw.pid)
       /\ \A i \in 1..Len(FieldOrder) : Populated(rec, i)
    \/ /\ result.status = "raised"
       /\ \E n \in 0..Len(FieldOrder) :
            /\ \A i \in 1..n : Populated(rec, i)
            /\ \A i \in (n + 1)..Len(FieldOrder) : rec[FieldOrder[i]] = pre[FieldOrder[i]]

C6_Witness ==
  /\ Ended /\ cur.fn = RP
  /\ result = Raised("IndexError")
  /\ PageRead = "B_no_subdivision"
  /\ pre.account_number = Some("R123456")
  /\ rec.account_number = Some("R654321")
  /\ rec.subdivision = Some("Elm Heights")

\* An extractRealPropertyData call returned; its land-size cell has neither pattern.
C7_Returned == Ended /\ cur.fn = RP /\ result.status = "returned" /\ PageRead # ""

C7_NeitherPattern ==
  /\ re_match_group(LandCell, " Square Feet") = None
  /\ re_match_group(LandCell, " Acres") = None

(***************************************************************************)
(* C7.  As claimed: after extractRealPropertyData returns, land_size is N  *)
(* for a cell "<N> Square Feet", N x 43560 for a cell "<N> Acres", and has *)
(* no value for a cell of neither pattern, whatever the object held.       *)
(***************************************************************************)
C7_LandSizeFromCell ==
  C7_Returned =>
    /\ \A c \in LandCases : LandCell = c.cell => rec.land_size = Some(c.sqft)
    /\ C7_NeitherPattern => rec.land_size = None

(***************************************************************************)
(* C7, amended.  After extractRealPropertyData returns, land_size is N for *)
(* a cell "<N> Square Feet" and N x 43560 for a cell "<N> Acres"; for a    *)
(* cell of neither pattern land_size is not assigned: it keeps the value   *)
(* the object held before the call, and has no value only if it had none.  *)
(***************************************************************************)
C7_LandSizeKeptOtherwise ==
  C7_Returned =>
    /\ \A c \in LandCases : LandCell = c.cell => rec.land_size = Some(c.sqft)
    /\ C7_NeitherPattern => rec.land_size = pre.land_size

C7_Witness ==
  /\ C7_Returned
  /\ LandCell = "Unknown"
  /\ pre.land_size = Some(1089000)
  /\ rec.land_size = Some(1089000)
  /\ rec.land_size_str = Some("Unknown")

(***************************************************************************)
(* C8.  extractRealPropertyData called with neither property_html nor      *)
(* propertyid returns None without raising, makes no request and leaves    *)
(* every field of the object as it was.                                    *)
(***************************************************************************)
C8_NoArguments ==
  (cur.fn = RP /\ ~cur.kw.has_html /\ ~cur.kw.has_pid) =>
    /\ pc = "idle"
    /\ result = Returned(None)
    /\ log = <<>>
    /\ ~resp.got
    /\ rec = pre

C8_Witness ==
  /\ Ended /\ cur.fn = RP /\ ~cur.kw.has_html /\ ~cur.kw.has_pid
  /\ result = Returned(None)
  /\ rec.account_number = Some("R123456")
  /\ rec = pre

(***************************************************************************)
(* C9.  Whenever a numeric cell of a page with the expected layout         *)
(* (quarter section, the number of the land-size cell under either         *)
(* pattern, land value) does not convert, extractRealPropertyData does not *)
(* fail: the field is left unset and the remaining fields are populated.   *)
(***************************************************************************)
C9_LenientNumbers ==
  (Ended /\ cur.fn = RP /\ cur.kw.has_pid /\ PageRead \in UnconvertiblePages) =>
    /\ result.status = "returned"
    /\ rec.land_size = None
    /\ \A i \in 1..Len(FieldOrder) : Populated(rec, i)

(***************************************************************************)
(* C10.  After an extractValuationHistory call that got its row list, the  *)
(* valuations of the object are exactly the entries built from that list:  *)
(* one per row, in the order of the rows, every field the row's value, and *)
(* nothing of what the collection held before.                             *)
(***************************************************************************)
C10_ValuationsReplaced ==
  (Ended /\ cur.fn = "extractValuationHistory" /\ resp.got) =>
    /\ Len(rec.valuations) = Len(resp.rows)
    /\ \A i \in 1..Len(resp.rows) :
         \A f \in ValuationFields : rec.valuations[i][f] = resp.rows[i][f]

C10_Witness ==
  /\ Ended /\ cur.fn = "extractValuationHistory" /\ resp.got
  /\ pre.valuations = <<V2, V1>>
  /\ resp.rows = <<V1>>
  /\ Len(rec.valuations) = 1
  /\ rec.valuations[1].year = 2020

====
